---------------------------- MODULE Spec2Model ----------------------------
(***************************************************************************)
(* A model of the JSCAD-to-glTF encoder of src/lib/index.ts: the colour    *)
(* resolver, the triangulator (collectGeometries and the two converters),  *)
(* the buffer packer (buildGltfCore) and the container serializer          *)
(* (buildGlb, buildConversionResult), driven by the two public entry       *)
(* points convertJscadPlanToGltf and convertJscadModelToGltf.              *)
(*                                                                         *)
(* Numbers.  Coordinates are integers (exactly representable as float32).  *)
(* A colour channel or a normal component x is carried as the integer      *)
(* 255 * x (so 1.0 is 255 and the 8-bit value 255 is 65025): value / 255   *)
(* is then exact for every integer channel.  A value of a JavaScript array *)
(* that may fail to be a number is a record [nan, v].  Infinite            *)
(* coordinates are not among the inputs of the model.                      *)
(*                                                                         *)
(* Strings are TLA+ strings; a Buffer is a sequence of bytes, a byte being *)
(* [u8 |-> 0..255] or, for the bytes of a Float32Array element e, the      *)
(* record [f32 |-> e, k |-> 0..3] (byte k of the IEEE-754 encoding of e).  *)
(***************************************************************************)
EXTENDS Integers, Sequences, FiniteSets, TLC

\* ------------------------------------------------------------------ bounds
\* The longest geometry list an input holds.
MaxList == 2

\* ------------------------------------------------------- program constants
GLTF_MODE_TRIANGLES == 4
GLTF_MODE_LINES == 1
GLTF_COMPONENT_FLOAT == 5126
ARRAY_BUFFER == 34962
\* normalizeColorChannel's divisor, and the model's unit of a channel.
ColorMax == 255
ONE == ColorMax

\* ----------------------------------------------------------------- helpers
Min2(a, b) == IF a < b THEN a ELSE b
Max2(a, b) == IF a > b THEN a ELSE b
Abs(a) == IF a < 0 THEN -a ELSE a
CharAt(s, i) == SubSeq(s, i, i)
Range(f) == {f[i] : i \in DOMAIN f}

\* A JavaScript number (finite, in the unit of its use) or NaN.
Num(v) == [nan |-> FALSE, v |-> v]
NaN == [nan |-> TRUE, v |-> 0]

\* Number(x) || 0
NumberOr0(x) == IF x.nan THEN 0 ELSE x.v

\* An `unknown` colour value: undefined/null, an array, a string, or another
\* (truthy) object.
ColUndefined == [kind |-> "undefined", arr |-> <<>>, str |-> ""]
ColArray(a) == [kind |-> "array", arr |-> a, str |-> ""]
ColString(s) == [kind |-> "string", arr |-> <<>>, str |-> s]
ColOther == [kind |-> "other", arr |-> <<>>, str |-> ""]
\* A resolved colour as an array value (what ensureColorTupleOnCsg stores).
ColOfTuple(t) == ColArray(<<Num(t[1]), Num(t[2]), Num(t[3])>>)

\* JavaScript truthiness of a colour value.
Truthy(c) == \/ c.kind \in {"array", "other"}
             \/ c.kind = "string" /\ c.str # ""

\* The result of a resolver: a tuple, or absent (undefined).
Absent == [ok |-> FALSE, rgb |-> <<0, 0, 0>>]
Some(t) == [ok |-> TRUE, rgb |-> t]
WHITE == <<ONE, ONE, ONE>>

\* ---------------------------------------------------------- colour resolver
\* align with the mask of the round-up idiom forgotten: (value + multiple - 1)
\* is returned as it is.
align_noMask(value, multiple) == value + (multiple - 1)

align(value, multiple) ==
  LET remainder == value % multiple
  IN IF remainder = 0 THEN value ELSE value + multiple - remainder

toColorTuple(value, fallback) ==
  IF value.kind = "array" /\ Len(value.arr) >= 3
  THEN [i \in 1..3 |-> IF value.arr[i].nan THEN fallback[i] ELSE value.arr[i].v]
  ELSE fallback

\* value is a Num or NaN; the result is a number.
normalizeColorChannel(value) ==
  IF value.nan THEN 0
  ELSE IF value.v < 0 THEN 0
  ELSE IF value.v > ONE THEN Min2(value.v \div ColorMax, ONE)
  ELSE value.v

parseColorArray(value) ==
  IF value.kind # "array" \/ Len(value.arr) < 3 THEN Absent
  ELSE Some([i \in 1..3 |-> normalizeColorChannel(value.arr[i])])

HexDigits == "0123456789abcdef"
IsHexDigit(c) == \E i \in 1..16 : CharAt(HexDigits, i) = c \/ CharAt("0123456789ABCDEF", i) = c
HexValue(c) == (CHOOSE i \in 1..16 : CharAt(HexDigits, i) = c \/ CharAt("0123456789ABCDEF", i) = c) - 1

\* The value of the longest prefix of hex digits of s, given the digits read so
\* far (acc) and whether any was read (any): NaN when none was.
RECURSIVE HexPrefix(_, _, _)
HexPrefix(s, acc, any) ==
  IF s # "" /\ IsHexDigit(Head(s))
  THEN HexPrefix(Tail(s), acc * 16 + HexValue(Head(s)), TRUE)
  ELSE IF any THEN Num(acc) ELSE NaN

RECURSIVE TrimStart(_)
TrimStart(s) == IF s # "" /\ Head(s) = " " THEN TrimStart(Tail(s)) ELSE s
RECURSIVE TrimEnd(_)
TrimEnd(s) ==
  IF s # "" /\ CharAt(s, Len(s)) = " " THEN TrimEnd(SubSeq(s, 1, Len(s) - 1)) ELSE s
trim(s) == TrimEnd(TrimStart(s))

\* parseInt(part, 16): leading white space, a sign, a 0x prefix, then the
\* longest run of hex digits; NaN when that run is empty.
parseInt16(part) ==
  LET t == TrimStart(part)
      neg == t # "" /\ Head(t) = "-"
      u == IF t # "" /\ Head(t) \in {"-", "+"} THEN Tail(t) ELSE t
      w == IF Len(u) >= 2 /\ SubSeq(u, 1, 2) \in {"0x", "0X"} THEN SubSeq(u, 3, Len(u)) ELSE u
      r == HexPrefix(w, 0, FALSE)
  IN IF r.nan THEN NaN ELSE Num(IF neg THEN -r.v ELSE r.v)

\* part.slice(start, end) on a string (indices from 0, end exclusive, clipped).
slice(s, start, end) == SubSeq(s, start + 1, Min2(end, Len(s)))

\* The parsed integer n is the 8-bit value n, that is n * ONE in channel units.
parseHexColor(value) ==
  LET hex == slice(value, 1, Len(value))
      isShort == Len(hex) = 3
      isLong == Len(hex) = 6 \/ Len(hex) = 8
      width == IF isShort THEN 1 ELSE 2
      part(index) == LET c == slice(hex, index * width, index * width + width)
                     IN IF isShort THEN c \o c ELSE c
      parsed(index) == parseInt16(part(index))
  IN IF ~isShort /\ ~isLong THEN Absent
     ELSE IF \E index \in 0..2 : parsed(index).nan THEN Absent
     ELSE Some([i \in 1..3 |-> normalizeColorChannel(Num(parsed(i - 1).v * ONE))])


Upper == "ABCDEFGHIJKLMNOPQRSTUVWXYZ"
Lower == "abcdefghijklmnopqrstuvwxyz"
LowerChar(c) ==
  IF \E i \in 1..26 : CharAt(Upper, i) = c
  THEN CharAt(Lower, CHOOSE i \in 1..26 : CharAt(Upper, i) = c)
  ELSE c
RECURSIVE toLowerCase(_)
toLowerCase(s) == IF s = "" THEN "" ELSE LowerChar(Head(s)) \o toLowerCase(Tail(s))

Contains(s, c) == \E i \in 1..Len(s) : CharAt(s, i) = c

\* s.split(","): the pieces between the commas, as a sequence of strings.
RECURSIVE SplitComma(_, _)
SplitComma(s, cur) ==
  IF s = "" THEN <<cur>>
  ELSE IF Head(s) = "," THEN <<cur>> \o SplitComma(Tail(s), "")
  ELSE SplitComma(Tail(s), cur \o Head(s))

Digits == "0123456789"
IsDigit(c) == \E i \in 1..10 : CharAt(Digits, i) = c
DigitValue(c) == (CHOOSE i \in 1..10 : CharAt(Digits, i) = c) - 1
RECURSIVE DecimalValue(_, _)
DecimalValue(s, acc) ==
  IF s = "" THEN acc ELSE DecimalValue(Tail(s), acc * 10 + DigitValue(Head(s)))

\* Number(s) for a string of an optional sign and decimal digits (white space
\* trimmed, the empty string 0, anything else NaN).  Strings with a fraction, an
\* exponent or a radix prefix are outside the inputs of this model.
NumberOfString(s) ==
  LET t == trim(s)
      neg == t # "" /\ Head(t) = "-"
      u == IF t # "" /\ Head(t) \in {"-", "+"} THEN Tail(t) ELSE t
  IN IF t = "" THEN Num(0)
     ELSE IF u = "" \/ \E i \in 1..Len(u) : ~IsDigit(CharAt(u, i)) THEN NaN
     ELSE Num(IF neg THEN -DecimalValue(u, 0) ELSE DecimalValue(u, 0))

\* toChannel of parseRgbColor: a channel in units of 1/ONE, or NaN for undefined.
toChannel(part) ==
  IF part # "" /\ CharAt(part, Len(part)) = "%"
  THEN LET percent == NumberOfString(SubSeq(part, 1, Len(part) - 1))
       IN IF percent.nan THEN NaN
          ELSE Num(Min2(Max2((percent.v * ONE) \div 100, 0), ONE))
  ELSE LET numeric == NumberOfString(part)
       IN IF numeric.nan THEN NaN
          ELSE Num(normalizeColorChannel(Num(numeric.v * ONE)))

SelectNonEmpty(parts) == SelectSeq(parts, LAMBDA p : p # "")

\* value.match(/^rgba?\(([^)]+)\)$/i) and the channel list it captures.
parseRgbColor(value) ==
  LET low == toLowerCase(value)
      open == IF Len(low) >= 5 /\ SubSeq(low, 1, 5) = "rgba(" THEN 5
              ELSE IF Len(low) >= 4 /\ SubSeq(low, 1, 4) = "rgb(" THEN 4
              ELSE 0
      partsSource == SubSeq(value, open + 1, Len(value) - 1)
      match == /\ open > 0
               /\ CharAt(value, Len(value)) = ")"
               /\ partsSource # ""
               /\ ~Contains(partsSource, ")")
      raw == SplitComma(partsSource, "")
      parts == SelectNonEmpty([i \in 1..Len(raw) |-> trim(raw[i])])
      channels == [i \in 1..3 |-> toChannel(parts[i])]
  IN IF ~match THEN Absent
     ELSE IF Len(parts) < 3 THEN Absent
     ELSE IF \E i \in 1..3 : channels[i].nan THEN Absent
     ELSE Some([i \in 1..3 |-> channels[i].v])

parseColorValue(value) ==
  IF value.kind = "undefined" THEN Absent
  ELSE LET fromArray == parseColorArray(value)
       IN IF fromArray.ok THEN fromArray
          ELSE IF value.kind = "string"
          THEN LET trimmed == trim(value.str)
               IN IF trimmed = "" THEN Absent
                  ELSE IF Head(trimmed) = "#" THEN parseHexColor(toLowerCase(trimmed))
                  ELSE parseRgbColor(trimmed)
          ELSE Absent

\* -------------------------------------------------------------- input shapes
\* A geometry value as the modelling engine (or the caller) hands it over: a list
\* (items), an object (with a truthy polygons and/or sides property, a colour and
\* a transform: `transforms` is <<>> when the object has none), or a scalar:
\* undefined, null, the number 0, another number, a non-empty string.
CsgList(items) ==
  [kind |-> "list", items |-> items, scalar |-> "", hasPolygons |-> FALSE,
   polygons |-> <<>>, hasSides |-> FALSE, sides |-> <<>>, color |-> ColUndefined,
   transforms |-> <<>>]
CsgScalar(value) ==
  [kind |-> "scalar", items |-> <<>>, scalar |-> value, hasPolygons |-> FALSE,
   polygons |-> <<>>, hasSides |-> FALSE, sides |-> <<>>, color |-> ColUndefined,
   transforms |-> <<>>]
CsgObject(hasPolygons, polygons, hasSides, sides, color, transforms) ==
  [kind |-> "object", items |-> <<>>, scalar |-> "", hasPolygons |-> hasPolygons,
   polygons |-> polygons, hasSides |-> hasSides, sides |-> sides, color |-> color,
   transforms |-> transforms]
\* !csg
Falsy(csg) == csg.kind = "scalar" /\ csg.scalar \in {"undefined", "null", "zero"}

\* A vertex: null, a bare array, an object with a `pos` array, an object with a
\* `position` array, or an object with neither; `coords` is that array.
Vertex(form, coords, color) == [form |-> form, coords |-> coords, color |-> color]

\* ------------------------------------------------------------- triangulator
extractVertexPosition(vertex) ==
  IF vertex.form = "null" THEN <<0, 0, 0>>
  ELSE IF vertex.form \in {"array", "pos", "position"} /\ Len(vertex.coords) >= 3
  THEN [i \in 1..3 |-> NumberOr0(vertex.coords[i])]
  ELSE <<0, 0, 0>>

extractVertexColor(vertex, defaultColor) ==
  IF vertex.form # "null" /\ Truthy(vertex.color)
  THEN toColorTuple(vertex.color, defaultColor)
  ELSE defaultColor

\* matrix is column-major, m[0] of the code being matrix[1] here.  The division
\* by w is the integer one: the inputs of the model keep it exact.
applyTransform(vector, matrix) ==
  IF Len(matrix) # 16 THEN vector
  ELSE LET m(i) == matrix[i + 1]
           x == vector[1]
           y == vector[2]
           z == vector[3]
           nx == m(0) * x + m(4) * y + m(8) * z + m(12)
           ny == m(1) * x + m(5) * y + m(9) * z + m(13)
           nz == m(2) * x + m(6) * y + m(10) * z + m(14)
           w == m(3) * x + m(7) * y + m(11) * z + m(15)
       IN IF w # 0 /\ w # 1 THEN <<nx \div w, ny \div w, nz \div w>>
          ELSE <<nx, ny, nz>>

subtract(a, b) == <<a[1] - b[1], a[2] - b[2], a[3] - b[3]>>
cross(a, b) == <<a[2] * b[3] - a[3] * b[2],
                 a[3] * b[1] - a[1] * b[3],
                 a[1] * b[2] - a[2] * b[1]>>

\* c / sqrt(len2) in units of 1/ONE, rounded towards zero.
UnitComponent(c, len2) ==
  LET t == CHOOSE t \in 0..ONE : /\ t * t * len2 <= c * c * ONE * ONE
                                 /\ (t + 1) * (t + 1) * len2 > c * c * ONE * ONE
  IN IF c < 0 THEN -t ELSE t

normalize(v) ==
  LET len2 == v[1] * v[1] + v[2] * v[2] + v[3] * v[3]
  IN IF len2 = 0 THEN <<0, 0, ONE>>
     ELSE [i \in 1..3 |-> UnitComponent(v[i], len2)]

\* new Float32Array(values): every number of the model is exactly representable.
Float32Array(values) == values

\* What a converter returns or throws.
Ok(geometries) == [err |-> "", geometries |-> geometries]
Throw(message) == [err |-> message, geometries |-> <<>>]
ErrExpectedPolygons == "Expected polygon data in JSCAD geometry"
ErrNoTriangles == "Unable to build triangle mesh from JSCAD polygons"
ErrExpectedSides == "Expected side data in JSCAD 2D geometry"
ErrNoLines == "Unable to build line geometry from JSCAD sides"
ErrUnsupported ==
  "JSCAD plan evaluation did not return a supported geometry (expected geom2 or geom3)"
ErrNoGeometry == "JSCAD plan execution returned no geometry"
ErrModelEmpty == "JSCAD model did not contain any geometries"

\* GeometryData with the colour stream left out of the returned object.
GeometryData_noColors(name, positions, hasNormals, normals, colors, mode) ==
  [name |-> name, positions |-> Float32Array(positions), hasNormals |-> hasNormals,
   normals |-> Float32Array(normals), hasColors |-> FALSE,
   colors |-> Float32Array(<<>>), mode |-> mode]

GeometryData(name, positions, hasNormals, normals, colors, mode) ==
  [name |-> name, positions |-> Float32Array(positions), hasNormals |-> hasNormals,
   normals |-> Float32Array(normals), hasColors |-> Len(colors) # 0,
   colors |-> Float32Array(colors), mode |-> mode]

shapeDefaultColor(csg) == IF Truthy(csg.color) THEN toColorTuple(csg.color, WHITE) ELSE WHITE

\* polygonStreams emitting a strip, (i-1, i, i+1), instead of the fan.
polygonStreams_strip(csg, polygon, defaultColor) ==
  LET n == Len(polygon)
      transformedVertices ==
        [j \in 1..n |-> applyTransform(extractVertexPosition(polygon[j]), csg.transforms)]
      vertexColors == [j \in 1..n |-> extractVertexColor(polygon[j], defaultColor)]
      tri(i) == <<i, i + 1, i + 2>>
      normalOf(i) == normalize(cross(subtract(transformedVertices[i + 1], transformedVertices[i]),
                                     subtract(transformedVertices[i + 2], transformedVertices[i])))
      count == IF n < 3 THEN 0 ELSE n - 2
      \* Entry q of a stream: triangle t(q), its corner c(q), the axis a(q).
      t(q) == ((q - 1) \div 9) + 1
      c(q) == (((q - 1) % 9) \div 3) + 1
      a(q) == ((q - 1) % 3) + 1
  IN [positions |-> [q \in 1..(9 * count) |-> transformedVertices[tri(t(q))[c(q)]][a(q)]],
      normals |-> [q \in 1..(9 * count) |-> normalOf(t(q))[a(q)]],
      colors |-> [q \in 1..(9 * count) |-> vertexColors[tri(t(q))[c(q)]][a(q)]]]

\* The three streams one polygon adds: its fan triangles (0, i, i+1).
polygonStreams(csg, polygon, defaultColor) ==
  LET n == Len(polygon)
      transformedVertices ==
        [j \in 1..n |-> applyTransform(extractVertexPosition(polygon[j]), csg.transforms)]
      vertexColors == [j \in 1..n |-> extractVertexColor(polygon[j], defaultColor)]
      tri(i) == <<1, i + 1, i + 2>>
      normalOf(i) == normalize(cross(subtract(transformedVertices[i + 1], transformedVertices[1]),
                                     subtract(transformedVertices[i + 2], transformedVertices[1])))
      count == IF n < 3 THEN 0 ELSE n - 2
      \* Entry q of a stream: triangle t(q), its corner c(q), the axis a(q).
      t(q) == ((q - 1) \div 9) + 1
      c(q) == (((q - 1) % 9) \div 3) + 1
      a(q) == ((q - 1) % 3) + 1
  IN [positions |-> [q \in 1..(9 * count) |-> transformedVertices[tri(t(q))[c(q)]][a(q)]],
      normals |-> [q \in 1..(9 * count) |-> normalOf(t(q))[a(q)]],
      colors |-> [q \in 1..(9 * count) |-> vertexColors[tri(t(q))[c(q)]][a(q)]]]

RECURSIVE polygonLoop(_, _, _)
polygonLoop(csg, defaultColor, from) ==
  IF from > Len(csg.polygons) THEN [positions |-> <<>>, normals |-> <<>>, colors |-> <<>>]
  ELSE LET here == polygonStreams(csg, csg.polygons[from], defaultColor)
           rest == polygonLoop(csg, defaultColor, from + 1)
       IN [positions |-> here.positions \o rest.positions,
           normals |-> here.normals \o rest.normals,
           colors |-> here.colors \o rest.colors]

\* convertPolygonGeometry without the check of the empty position list.
convertPolygonGeometry_emptyMesh(csg, name) ==
  IF ~csg.hasPolygons \/ Len(csg.polygons) = 0 THEN Throw(ErrExpectedPolygons)
  ELSE LET s == polygonLoop(csg, shapeDefaultColor(csg), 1)
       IN Ok(<<GeometryData(name, s.positions, TRUE, s.normals, s.colors,
                            GLTF_MODE_TRIANGLES)>>)

convertPolygonGeometry(csg, name) ==
  IF ~csg.hasPolygons \/ Len(csg.polygons) = 0 THEN Throw(ErrExpectedPolygons)
  ELSE LET s == polygonLoop(csg, shapeDefaultColor(csg), 1)
       IN IF Len(s.positions) = 0 THEN Throw(ErrNoTriangles)
          ELSE Ok(<<GeometryData(name, s.positions, TRUE, s.normals, s.colors,
                                 GLTF_MODE_TRIANGLES)>>)

\* A point of a side: its missing entries are undefined, so Number() of them NaN.
pointCoord(point, i) == IF i <= Len(point) THEN NumberOr0(point[i]) ELSE 0

\* sideStreams ending the segment at the second point of the side.
sideStreams_secondPoint(csg, side, defaultColor) ==
  IF Len(side) < 2 THEN [positions |-> <<>>, colors |-> <<>>]
  ELSE LET start == applyTransform([i \in 1..3 |-> pointCoord(side[1], i)], csg.transforms)
           end == applyTransform([i \in 1..3 |-> pointCoord(side[2], i)], csg.transforms)
       IN [positions |-> start \o end, colors |-> defaultColor \o defaultColor]

\* sideStreams pushing the colour once per segment instead of once per point.
sideStreams_oneColor(csg, side, defaultColor) ==
  IF Len(side) < 2 THEN [positions |-> <<>>, colors |-> <<>>]
  ELSE LET start == applyTransform([i \in 1..3 |-> pointCoord(side[1], i)], csg.transforms)
           end == applyTransform([i \in 1..3 |-> pointCoord(side[Len(side)], i)],
                                 csg.transforms)
       IN [positions |-> start \o end, colors |-> defaultColor]

sideStreams(csg, side, defaultColor) ==
  IF Len(side) < 2 THEN [positions |-> <<>>, colors |-> <<>>]
  ELSE LET startRaw == side[1]
           endRaw == side[Len(side)]
           start == applyTransform([i \in 1..3 |-> pointCoord(startRaw, i)], csg.transforms)
           end == applyTransform([i \in 1..3 |-> pointCoord(endRaw, i)], csg.transforms)
       IN [positions |-> start \o end, colors |-> defaultColor \o defaultColor]

RECURSIVE sideLoop(_, _, _)
sideLoop(csg, defaultColor, from) ==
  IF from > Len(csg.sides) THEN [positions |-> <<>>, colors |-> <<>>]
  ELSE LET here == sideStreams(csg, csg.sides[from], defaultColor)
           rest == sideLoop(csg, defaultColor, from + 1)
       IN [positions |-> here.positions \o rest.positions,
           colors |-> here.colors \o rest.colors]

\* convertSideGeometry without the check of the empty position list.
convertSideGeometry_emptyLines(csg, name) ==
  IF ~csg.hasSides \/ Len(csg.sides) = 0 THEN Throw(ErrExpectedSides)
  ELSE LET s == sideLoop(csg, shapeDefaultColor(csg), 1)
       IN Ok(<<GeometryData(name, s.positions, FALSE, <<>>, s.colors, GLTF_MODE_LINES)>>)

convertSideGeometry(csg, name) ==
  IF ~csg.hasSides \/ Len(csg.sides) = 0 THEN Throw(ErrExpectedSides)
  ELSE LET s == sideLoop(csg, shapeDefaultColor(csg), 1)
       IN IF Len(s.positions) = 0 THEN Throw(ErrNoLines)
          ELSE Ok(<<GeometryData(name, s.positions, FALSE, <<>>, s.colors, GLTF_MODE_LINES)>>)

RECURSIVE collectGeometries(_, _)
RECURSIVE collectChildren(_, _, _)

\* collectChildren with a try/catch around each child: a child that throws is
\* left out and the others are kept.
RECURSIVE collectChildren_skipFailed(_, _, _)
collectChildren_skipFailed(items, name, index) ==
  IF index >= Len(items) THEN Ok(<<>>)
  ELSE LET head == collectGeometries(items[index + 1], name \o "_" \o ToString(index))
           rest == collectChildren_skipFailed(items, name, index + 1)
       IN Ok((IF head.err # "" THEN <<>> ELSE head.geometries) \o rest.geometries)

\* collectChildren naming every child after the list alone (the index dropped
\* from the template string).
RECURSIVE collectChildren_noIndex(_, _, _)
collectChildren_noIndex(items, name, index) ==
  IF index >= Len(items) THEN Ok(<<>>)
  ELSE LET head == collectGeometries(items[index + 1], name \o "_")
       IN IF head.err # "" THEN head
          ELSE LET rest == collectChildren_noIndex(items, name, index + 1)
               IN IF rest.err # "" THEN rest
                  ELSE Ok(head.geometries \o rest.geometries)

\* csg.flatMap((child, index) => collectGeometries(child, `${name}_${index}`)),
\* from the child at `index` on: a child that throws ends the whole call.
collectChildren(items, name, index) ==
  IF index >= Len(items) THEN Ok(<<>>)
  ELSE LET head == collectGeometries(items[index + 1], name \o "_" \o ToString(index))
       IN IF head.err # "" THEN head
          ELSE LET rest == collectChildren(items, name, index + 1)
               IN IF rest.err # "" THEN rest
                  ELSE Ok(head.geometries \o rest.geometries)

collectGeometries(csg, name) ==
  IF csg.kind = "list" THEN collectChildren(csg.items, name, 0)
  ELSE IF csg.kind = "object" /\ csg.hasPolygons THEN convertPolygonGeometry(csg, name)
  ELSE IF csg.kind = "object" /\ csg.hasSides THEN convertSideGeometry(csg, name)
  ELSE Throw(ErrUnsupported)

\* ------------------------------------------------------------------- bytes
U8(n) == [u8 |-> n]
IsU8(b) == "u8" \in DOMAIN b
\* Buffer.alloc(n, fill)
BufferAlloc(n, fill) == [i \in 1..n |-> U8(fill)]
BYTES_PER_ELEMENT == 4
\* data.length (the number of elements) taken for data.byteLength.
byteLength_elements(data) == Len(data)
\* data.byteLength of a Float32Array
byteLength(data) == BYTES_PER_ELEMENT * Len(data)
\* Buffer.from(data.buffer, data.byteOffset, data.byteLength): the bytes of the
\* elements, in order.
BufferFromFloat32(data) ==
  [i \in 1..byteLength(data) |-> [f32 |-> data[((i - 1) \div 4) + 1], k |-> (i - 1) % 4]]

RECURSIVE Flatten(_)
Flatten(chunks) == IF chunks = <<>> THEN <<>> ELSE Head(chunks) \o Flatten(Tail(chunks))
\* Buffer.concat(list, totalLength): cut, or filled with zero bytes, to totalLength.
BufferConcat(chunks, totalLength) ==
  LET all == Flatten(chunks)
  IN [i \in 1..totalLength |-> IF i <= Len(all) THEN all[i] ELSE U8(0)]

\* buf.writeUInt32LE(value, 0) on a fresh 4-byte buffer
UInt32LE(value) ==
  <<U8(value % 256), U8((value \div 256) % 256), U8((value \div 65536) % 256),
    U8((value \div 16777216) % 256)>>
\* ------------------------------------------------------------------ packer
\* A bound of an accessor: a finite number, or the +Infinity / -Infinity seed.
Fin(v) == [inf |-> 0, v |-> v]
PosInf == [inf |-> 1, v |-> 0]
NegInf == [inf |-> -1, v |-> 0]
\* x < m and x > m for a finite x
LessThan(x, m) == m.inf = 1 \/ (m.inf = 0 /\ x < m.v)
GreaterThan(x, m) == m.inf = -1 \/ (m.inf = 0 /\ x > m.v)

addBufferView(chunks, bufferViews, data, currentLength, target) ==
  LET offset == align(currentLength, 4)
      padding == offset - currentLength
      padded == IF padding > 0 THEN Append(chunks, BufferAlloc(padding, 0)) ELSE chunks
  IN [chunks |-> Append(padded, BufferFromFloat32(data)),
      bufferViews |-> Append(bufferViews, [buffer |-> 0, byteOffset |-> offset,
                                           byteLength |-> byteLength(data),
                                           target |-> target]),
      bufferViewIndex |-> Len(bufferViews),
      newLength |-> offset + byteLength(data)]

\* The loop of computeMinMax over the triples at i, i + 3, ... below `to`,
\* entered with the bounds min and max: the triples in order, the first half
\* and then the second half.
RECURSIVE minMaxLoop(_, _, _, _, _)
minMaxLoop(values, i, to, min, max) ==
  IF i >= to THEN [min |-> min, max |-> max]
  ELSE IF i + 3 >= to
  THEN LET lower(a) == IF LessThan(values[i + a], min[a]) THEN Fin(values[i + a]) ELSE min[a]
           upper(a) == IF GreaterThan(values[i + a], max[a]) THEN Fin(values[i + a])
                       ELSE max[a]
       IN [min |-> <<lower(1), lower(2), lower(3)>>, max |-> <<upper(1), upper(2), upper(3)>>]
  ELSE LET mid == i + 3 * ((((to - i) + 2) \div 3) \div 2)
           first == minMaxLoop(values, i, mid, min, max)
       IN IF first.min = first.min  \* the first half is finished before the second
          THEN minMaxLoop(values, mid, to, first.min, first.max)
          ELSE first

\* computeMinMax seeded with zeros instead of +Infinity / -Infinity.
computeMinMax_zeroSeed(values) ==
  minMaxLoop(values, 0, Len(values), <<Fin(0), Fin(0), Fin(0)>>, <<Fin(0), Fin(0), Fin(0)>>)

computeMinMax(values) ==
  minMaxLoop(values, 0, Len(values), <<PosInf, PosInf, PosInf>>, <<NegInf, NegInf, NegInf>>)

Accessor(bufferView, count, hasBounds, bounds) ==
  [bufferView |-> bufferView, componentType |-> GLTF_COMPONENT_FLOAT, count |-> count,
   type |-> "VEC3", hasBounds |-> hasBounds, min |-> bounds.min, max |-> bounds.max]
NoBounds == [min |-> <<>>, max |-> <<>>]

\* The packer's state in buildGltfCore.
PackerInit ==
  [bufferChunks |-> <<>>, bufferViews |-> <<>>, accessors |-> <<>>, meshes |-> <<>>,
   nodes |-> <<>>, bufferLength |-> 0]

\* The forEach callback of buildGltfCore on one unit (index from 0).
packGeometry(st, geometry, index) ==
  LET positionResult == addBufferView(st.bufferChunks, st.bufferViews, geometry.positions,
                                      st.bufferLength, ARRAY_BUFFER)
      positionAccessorIndex == Len(st.accessors)
      acc1 == Append(st.accessors,
                     Accessor(positionResult.bufferViewIndex, Len(geometry.positions) \div 3,
                              TRUE, computeMinMax(geometry.positions)))
      attr1 == <<[key |-> "POSITION", accessor |-> positionAccessorIndex]>>
      normalResult ==
        IF geometry.hasNormals
        THEN addBufferView(positionResult.chunks, positionResult.bufferViews, geometry.normals,
                           positionResult.newLength, ARRAY_BUFFER)
        ELSE positionResult
      acc2 == IF geometry.hasNormals
              THEN Append(acc1, Accessor(normalResult.bufferViewIndex,
                                         Len(geometry.normals) \div 3, FALSE, NoBounds))
              ELSE acc1
      attr2 == IF geometry.hasNormals
               THEN Append(attr1, [key |-> "NORMAL", accessor |-> Len(acc1)])
               ELSE attr1
      colorResult ==
        IF geometry.hasColors
        THEN addBufferView(normalResult.chunks, normalResult.bufferViews, geometry.colors,
                           normalResult.newLength, ARRAY_BUFFER)
        ELSE normalResult
      acc3 == IF geometry.hasColors
              THEN Append(acc2, Accessor(colorResult.bufferViewIndex,
                                         Len(geometry.colors) \div 3, FALSE, NoBounds))
              ELSE acc2
      attr3 == IF geometry.hasColors
               THEN Append(attr2, [key |-> "COLOR_0", accessor |-> Len(acc2)])
               ELSE attr2
  IN [bufferChunks |-> colorResult.chunks,
      bufferViews |-> colorResult.bufferViews,
      accessors |-> acc3,
      meshes |-> Append(st.meshes, [name |-> geometry.name,
                                    primitives |-> <<[attributes |-> attr3,
                                                      mode |-> geometry.mode]>>]),
      nodes |-> Append(st.nodes, [name |-> geometry.name, mesh |-> index]),
      bufferLength |-> colorResult.newLength]

\* The end of buildGltfCore: the final padding and the concatenation.
packFinish(st) ==
  LET alignedLength == align(st.bufferLength, 4)
      chunks == IF alignedLength > st.bufferLength
                THEN Append(st.bufferChunks, BufferAlloc(alignedLength - st.bufferLength, 0))
                ELSE st.bufferChunks
      bufferLength == IF alignedLength > st.bufferLength THEN alignedLength
                      ELSE st.bufferLength
  IN [st EXCEPT !.bufferChunks = chunks, !.bufferLength = bufferLength]

\* -------------------------------------------------------------- JSON values
\* A JavaScript value of the scene description: a finite number, a non-finite
\* number, null, a string, an array (items) or an object (keys and items, in
\* insertion order).
JValue(t, n, str, keys, items) == [t |-> t, n |-> n, s |-> str, keys |-> keys, items |-> items]
JInt(n) == JValue("number", n, "", <<>>, <<>>)
JNonFinite(sign) == JValue("nonfinite", sign, "", <<>>, <<>>)
JNull == JValue("null", 0, "", <<>>, <<>>)
JStr(str) == JValue("string", 0, str, <<>>, <<>>)
JArr(items) == JValue("array", 0, "", <<>>, items)
JObj(keys, items) == JValue("object", 0, "", keys, items)
JBound(e) == IF e.inf = 0 THEN JInt(e.v) ELSE JNonFinite(e.inf)
KeyIndex(keys, key) == CHOOSE i \in 1..Len(keys) : keys[i] = key
JGet(obj, key) == obj.items[KeyIndex(obj.keys, key)]

\* A JSON string literal: the quote and the backslash are escaped (control
\* characters do not occur in the names of this model).
RECURSIVE escape(_)
escape(str) ==
  IF Len(str) = 0 THEN ""
  ELSE IF Len(str) = 1 THEN (IF str \in {"\"", "\\"} THEN "\\" \o str ELSE str)
  ELSE LET h == Len(str) \div 2
       IN escape(SubSeq(str, 1, h)) \o escape(SubSeq(str, h + 1, Len(str)))
quote(str) == "\"" \o escape(str) \o "\""

RECURSIVE Spaces(_)
Spaces(n) == IF n <= 0 THEN "" ELSE " " \o Spaces(n - 1)
\* The line break and indentation JSON.stringify(value, null, gap) writes at
\* nesting `level`: nothing when gap is 0.
Break(gap, level) == IF gap = 0 THEN "" ELSE "\n" \o Spaces(gap * level)

RECURSIVE stringify(_, _, _)
RECURSIVE stringifyMembers(_, _, _, _)
\* Members i.. of an array or object v, separated by commas.
stringifyMembers(v, i, gap, level) ==
  LET member == (IF v.t = "object"
                 THEN quote(v.keys[i]) \o ":" \o (IF gap = 0 THEN "" ELSE " ")
                 ELSE "")
                \o stringify(v.items[i], gap, level)
  IN IF i = Len(v.items) THEN member
     ELSE member \o "," \o Break(gap, level) \o stringifyMembers(v, i + 1, gap, level)

\* JSON.stringify(v, null, gap) at nesting `level`.
stringify(v, gap, level) ==
  CASE v.t = "number" -> ToString(v.n)
    [] v.t \in {"nonfinite", "null"} -> "null"
    [] v.t = "string" -> quote(v.s)
    [] v.t = "array" ->
         IF v.items = <<>> THEN "[]"
         ELSE "[" \o Break(gap, level + 1) \o stringifyMembers(v, 1, gap, level + 1)
              \o Break(gap, level) \o "]"
    [] v.t = "object" ->
         IF v.items = <<>> THEN "{}"
         ELSE "{" \o Break(gap, level + 1) \o stringifyMembers(v, 1, gap, level + 1)
              \o Break(gap, level) \o "}"
JSONstringify(v, gap) == stringify(v, gap, 0)

\* JSON.parse(JSON.stringify(v)): a deep copy in which a non-finite number has
\* become null.
RECURSIVE deepCopy(_)
deepCopy(v) ==
  IF v.t = "nonfinite" THEN JNull
  ELSE [v EXCEPT !.items = [i \in 1..Len(v.items) |-> deepCopy(v.items[i])]]

\* The scene description buildGltfCore returns.
bufferViewJson(bv) ==
  JObj(<<"buffer", "byteOffset", "byteLength", "target">>,
       <<JInt(bv.buffer), JInt(bv.byteOffset), JInt(bv.byteLength), JInt(bv.target)>>)
accessorJson(a) ==
  LET base == <<JInt(a.bufferView), JInt(a.componentType), JInt(a.count), JStr(a.type)>>
  IN IF a.hasBounds
     THEN JObj(<<"bufferView", "componentType", "count", "type", "min", "max">>,
               base \o <<JArr([i \in 1..Len(a.min) |-> JBound(a.min[i])]),
                         JArr([i \in 1..Len(a.max) |-> JBound(a.max[i])])>>)
     ELSE JObj(<<"bufferView", "componentType", "count", "type">>, base)
primitiveJson(p) ==
  JObj(<<"attributes", "mode">>,
       <<JObj([i \in 1..Len(p.attributes) |-> p.attributes[i].key],
              [i \in 1..Len(p.attributes) |-> JInt(p.attributes[i].accessor)]),
         JInt(p.mode)>>)
meshJson(m) ==
  JObj(<<"name", "primitives">>,
       <<JStr(m.name), JArr([i \in 1..Len(m.primitives) |-> primitiveJson(m.primitives[i])])>>)
\* sceneJson listing the nodes of the scene from 1.
sceneJson_countedFromOne(st) ==
  JObj(<<"asset", "buffers", "bufferViews", "accessors", "meshes", "nodes", "scenes", "scene">>,
       <<JObj(<<"version", "generator">>, <<JStr("2.0"), JStr("jscad-plan-to-gltf")>>),
         JArr(<<JObj(<<"byteLength">>, <<JInt(st.bufferLength)>>)>>),
         JArr([i \in 1..Len(st.bufferViews) |-> bufferViewJson(st.bufferViews[i])]),
         JArr([i \in 1..Len(st.accessors) |-> accessorJson(st.accessors[i])]),
         JArr([i \in 1..Len(st.meshes) |-> meshJson(st.meshes[i])]),
         JArr([i \in 1..Len(st.nodes) |->
                 JObj(<<"name", "mesh">>, <<JStr(st.nodes[i].name), JInt(i - 1)>>)]),
         JArr(<<JObj(<<"name", "nodes">>,
                     <<JStr("Scene"), JArr([i \in 1..Len(st.nodes) |-> JInt(i)])>>)>>),
         JInt(0)>>)

sceneJson(st) ==
  JObj(<<"asset", "buffers", "bufferViews", "accessors", "meshes", "nodes", "scenes", "scene">>,
       <<JObj(<<"version", "generator">>, <<JStr("2.0"), JStr("jscad-plan-to-gltf")>>),
         JArr(<<JObj(<<"byteLength">>, <<JInt(st.bufferLength)>>)>>),
         JArr([i \in 1..Len(st.bufferViews) |-> bufferViewJson(st.bufferViews[i])]),
         JArr([i \in 1..Len(st.accessors) |-> accessorJson(st.accessors[i])]),
         JArr([i \in 1..Len(st.meshes) |-> meshJson(st.meshes[i])]),
         JArr([i \in 1..Len(st.nodes) |->
                 JObj(<<"name", "mesh">>, <<JStr(st.nodes[i].name), JInt(i - 1)>>)]),
         JArr(<<JObj(<<"name", "nodes">>,
                     <<JStr("Scene"), JArr([i \in 1..Len(st.nodes) |-> JInt(i - 1)])>>)>>),
         JInt(0)>>)

\* ------------------------------------------------------------------- UTF-8
\* The printable ASCII characters in code order: 32..95, and 97..126 (a string
\* of this notation cannot hold the character 96).
AsciiLow == " !\"#$%&'()*+,-./0123456789:;<=>?@ABCDEFGHIJKLMNOPQRSTUVWXYZ[\\]^_"
AsciiHigh == "abcdefghijklmnopqrstuvwxyz{|}~"
IndexIn(str, c) == CHOOSE i \in 1..Len(str) : CharAt(str, i) = c
\* The code of every ASCII character of the model.
AsciiCode ==
  [c \in {CharAt(AsciiLow, i) : i \in 1..Len(AsciiLow)}
         \cup {CharAt(AsciiHigh, i) : i \in 1..Len(AsciiHigh)} \cup {"\n"} |->
     IF c = "\n" THEN 10
     ELSE IF Contains(AsciiLow, c) THEN 31 + IndexIn(AsciiLow, c)
     ELSE 96 + IndexIn(AsciiHigh, c)]
\* The UTF-8 bytes of one character: one byte for ASCII, two for U+00E9 (the
\* only other character of the model).
utf8Char(c) ==
  IF c \in DOMAIN AsciiCode THEN <<U8(AsciiCode[c])>> ELSE <<U8(195), U8(169)>>
\* Buffer.from(str, "utf8")
RECURSIVE BufferFromString(_)
BufferFromString(str) ==
  IF Len(str) = 0 THEN <<>>
  ELSE IF Len(str) = 1 THEN utf8Char(str)
  ELSE LET h == Len(str) \div 2
       IN BufferFromString(SubSeq(str, 1, h)) \o BufferFromString(SubSeq(str, h + 1, Len(str)))

\* binary.toString("base64"): four characters for every three bytes.  The
\* characters themselves depend on the float bits and are all written "A".
RECURSIVE Repeat(_, _)
Repeat(c, n) ==
  IF n <= 0 THEN ""
  ELSE IF n % 2 = 1 THEN c \o Repeat(c, n - 1)
  ELSE LET half == Repeat(c, n \div 2) IN half \o half
base64(buf) == Repeat("AAAA", (Len(buf) + 2) \div 3)

\* --------------------------------------------------------------- serializer
GLB_MAGIC == 1179937895
GLB_VERSION == 2
CHUNK_JSON == 1313821514
CHUNK_BIN == 5130562
SPACE == 32

\* buildGlb with the total length taken from the unpadded JSON buffer.
buildGlb_unpaddedTotal(json, binary) ==
  LET jsonBuffer == BufferFromString(JSONstringify(json, 0))
      jsonPadding == align(Len(jsonBuffer), 4) - Len(jsonBuffer)
      paddedJson == IF jsonPadding > 0 THEN jsonBuffer \o BufferAlloc(jsonPadding, SPACE)
                    ELSE jsonBuffer
      binPadding == align(Len(binary), 4) - Len(binary)
      paddedBinary == IF binPadding > 0 THEN binary \o BufferAlloc(binPadding, 0) ELSE binary
      totalLength == 12 + 8 + Len(jsonBuffer) + 8 + Len(paddedBinary)
  IN UInt32LE(GLB_MAGIC) \o UInt32LE(GLB_VERSION) \o UInt32LE(totalLength)
     \o UInt32LE(Len(paddedJson)) \o UInt32LE(CHUNK_JSON) \o paddedJson
     \o UInt32LE(Len(paddedBinary)) \o UInt32LE(CHUNK_BIN) \o paddedBinary

\* buildGlb padding the JSON chunk with zero bytes, as it pads the binary chunk.
buildGlb_zeroPadding(json, binary) ==
  LET jsonBuffer == BufferFromString(JSONstringify(json, 0))
      jsonPadding == align(Len(jsonBuffer), 4) - Len(jsonBuffer)
      paddedJson == IF jsonPadding > 0 THEN jsonBuffer \o BufferAlloc(jsonPadding, 0)
                    ELSE jsonBuffer
      binPadding == align(Len(binary), 4) - Len(binary)
      paddedBinary == IF binPadding > 0 THEN binary \o BufferAlloc(binPadding, 0) ELSE binary
      totalLength == 12 + 8 + Len(paddedJson) + 8 + Len(paddedBinary)
  IN UInt32LE(GLB_MAGIC) \o UInt32LE(GLB_VERSION) \o UInt32LE(totalLength)
     \o UInt32LE(Len(paddedJson)) \o UInt32LE(CHUNK_JSON) \o paddedJson
     \o UInt32LE(Len(paddedBinary)) \o UInt32LE(CHUNK_BIN) \o paddedBinary

buildGlb(json, binary) ==
  LET jsonString == JSONstringify(json, 0)
      jsonBuffer == BufferFromString(jsonString)
      jsonPadding == align(Len(jsonBuffer), 4) - Len(jsonBuffer)
      paddedJson == IF jsonPadding > 0 THEN jsonBuffer \o BufferAlloc(jsonPadding, SPACE)
                    ELSE jsonBuffer
      binPadding == align(Len(binary), 4) - Len(binary)
      paddedBinary == IF binPadding > 0 THEN binary \o BufferAlloc(binPadding, 0) ELSE binary
      totalLength == 12 + 8 + Len(paddedJson) + 8 + Len(paddedBinary)
      header == UInt32LE(GLB_MAGIC) \o UInt32LE(GLB_VERSION) \o UInt32LE(totalLength)
      jsonChunkHeader == UInt32LE(Len(paddedJson)) \o UInt32LE(CHUNK_JSON)
      binChunkHeader == UInt32LE(Len(paddedBinary)) \o UInt32LE(CHUNK_BIN)
  IN header \o jsonChunkHeader \o paddedJson \o binChunkHeader \o paddedBinary

\* What a conversion returns: data is an ArrayBuffer (bytes) or a string (text).
ArrayBufferData(bytes) == [isString |-> FALSE, bytes |-> bytes, text |-> ""]
StringData(text) == [isString |-> TRUE, bytes |-> <<>>, text |-> text]
NoResult == [data |-> ArrayBufferData(<<>>), format |-> "", mimeType |-> "", byteLength |-> 0]

\* jsonDoc.buffers[0].uri = uri
withBufferUri(doc, uri) ==
  LET b == KeyIndex(doc.keys, "buffers")
      buffer0 == doc.items[b].items[1]
      withUri == JObj(Append(buffer0.keys, "uri"), Append(buffer0.items, JStr(uri)))
  IN [doc EXCEPT !.items[b].items[1] = withUri]

\* buildConversionResult after buildGltfCore has returned { json, binary }.
serialize(json, binary, format, prettyJson) ==
  IF format = "glb"
  THEN LET arrayBuffer == buildGlb(json, binary)
       IN [data |-> ArrayBufferData(arrayBuffer), format |-> format,
           mimeType |-> "model/gltf-binary", byteLength |-> Len(arrayBuffer)]
  ELSE LET jsonDoc == withBufferUri(deepCopy(json),
                                    "data:application/octet-stream;base64," \o base64(binary))
           jsonString == JSONstringify(jsonDoc, IF prettyJson THEN 2 ELSE 0)
       IN [data |-> StringData(jsonString), format |-> format,
           mimeType |-> "model/gltf+json", byteLength |-> Len(BufferFromString(jsonString))]

\* ------------------------------------------------------------ entry points
\* The options of a call: format and meshName may be absent.
Options(hasFormat, format, hasMeshName, meshName, prettyJson) ==
  [hasFormat |-> hasFormat, format |-> format, hasMeshName |-> hasMeshName,
   meshName |-> meshName, prettyJson |-> prettyJson]
meshNameOf(options) == IF options.hasMeshName THEN options.meshName ELSE "JSCADMesh"
\* formatOf with the other format as the default.
formatOf_defaultGltf(options) == IF options.hasFormat THEN options.format ELSE "gltf"
formatOf(options) == IF options.hasFormat THEN options.format ELSE "glb"

\* An entry of model.geometries: geom may be missing.
Entry(hasGeom, geom, color) == [hasGeom |-> hasGeom, geom |-> geom, color |-> color]
\* A rendered model: `valid` is model && Array.isArray(model.geometries).
Model(valid, geometries) == [valid |-> valid, geometries |-> geometries]

\* { ...geom, color }: the own enumerable properties of geom, and the colour.
\* Of a list or a scalar that leaves an object with no polygons and no sides.
spreadWithColor(geom, color) ==
  IF geom.kind = "object" THEN [geom EXCEPT !.color = color]
  ELSE CsgObject(FALSE, <<>>, FALSE, <<>>, color, <<>>)

ensureColorTupleOnCsg(geom, colorHint) ==
  LET fromHint == parseColorValue(colorHint)
      parsedColor == IF fromHint.ok THEN fromHint ELSE parseColorValue(geom.color)
  IN IF parsedColor.ok THEN spreadWithColor(geom, ColOfTuple(parsedColor.rgb)) ELSE geom

\* !entry?.geom
geomMissing(entry) == ~entry.hasGeom \/ Falsy(entry.geom)

RECURSIVE prepareFrom(_, _)
prepareFrom(entries, i) ==
  IF i > Len(entries) THEN <<>>
  ELSE IF geomMissing(entries[i]) THEN prepareFrom(entries, i + 1)
  ELSE <<ensureColorTupleOnCsg(entries[i].geom, entries[i].color)>> \o prepareFrom(entries, i + 1)

normalizeRenderedGeometries(model) ==
  IF ~model.valid THEN <<>> ELSE prepareFrom(model.geometries, 1)

\* convertJscadPlanToGltf up to the call of buildGltfCore: the Mesh Units, or the
\* failure thrown.
planGeometries(csgResult, options) ==
  IF Falsy(csgResult) THEN Throw(ErrNoGeometry)
  ELSE LET collected == collectGeometries(csgResult, meshNameOf(options))
       IN IF collected.err # "" THEN collected
          ELSE IF Len(collected.geometries) = 0 THEN Throw(ErrNoGeometry)
          ELSE collected

\* convertJscadModelToGltf up to the call of buildGltfCore.
modelGeometries(model, options) ==
  LET csgGeometries == normalizeRenderedGeometries(model)
  IN IF Len(csgGeometries) = 0 THEN Throw(ErrModelEmpty)
     ELSE LET collected == collectGeometries(CsgList(csgGeometries), meshNameOf(options))
          IN IF collected.err # "" THEN collected
             ELSE IF Len(collected.geometries) = 0 THEN Throw(ErrNoGeometry)
             ELSE collected

\* ------------------------------------------------------------------ inputs
\* Sequences of length at most n over a set.
SeqUpTo(S, n) == UNION {[1..k -> S] : k \in 0..n}

N3(a, b, c) == <<Num(a), Num(b), Num(c)>>
\* Vertices: bare triples, a null vertex, a vertex with unreadable coordinates,
\* and {pos, color} objects whose colour is a 0..1 triple, an 8-bit triple, a
\* hex string, a triple with a non-numeric channel, or an unrecognized string.
Va(a, b, c) == Vertex("array", N3(a, b, c), ColUndefined)
Vc(a, b, c, color) == Vertex("pos", N3(a, b, c), color)
VNull == Vertex("null", <<>>, ColUndefined)
VNaN == Vertex("position", <<Num(2), NaN, Num(-1)>>, ColUndefined)
Red01 == ColArray(N3(ONE, 0, 0))
Red8bit == ColArray(N3(255 * ONE, 0, 0))
Grey8bit == ColArray(<<Num(128 * ONE), Num(128 * ONE), Num(128 * ONE), Num(ONE)>>)
HalfNaN == ColArray(<<Num(0), NaN, Num(ONE)>>)
ShortArray == ColArray(<<Num(ONE), Num(0)>>)

Tri == <<Va(0, 0, 0), Va(1, 0, 0), Va(0, 1, 0)>>
Quad == <<Va(0, 0, 1), Va(2, 0, 1), Va(2, 2, 1), Va(0, 2, 1)>>
Collinear == <<Va(0, 0, 0), Va(1, 1, 1), Va(2, 2, 2)>>
TwoVertices == <<Va(0, 0, 0), Va(1, 0, 0)>>
ColoredTri == <<Vc(0, 0, -1, Red01), Vc(1, 0, 2, Red8bit), Vc(0, 1, 0, ColString("#00ff00"))>>
MixedQuad == <<Vc(0, 0, 0, HalfNaN), VNull, VNaN, Vc(1, 2, 1, ColString("banana"))>>

NoTransform == <<>>
Identity == <<1, 0, 0, 0, 0, 1, 0, 0, 0, 0, 1, 0, 0, 0, 0, 1>>
Translate == <<1, 0, 0, 0, 0, 1, 0, 0, 0, 0, 1, 0, 1, -2, 3, 1>>
\* w = 2 on every point: a perspective division that is exact.
Halving == <<2, 0, 0, 0, 0, 4, 0, 0, 0, 0, 2, 0, 2, 0, -2, 2>>
\* Not 16 entries: treated as no transform.
ShortMatrix == <<2, 0, 0, 0, 2, 0, 0, 0, 2>>

Solid(polygons, color, transforms) == CsgObject(TRUE, polygons, FALSE, <<>>, color, transforms)
Shape(sides, color, transforms) == CsgObject(FALSE, <<>>, TRUE, sides, color, transforms)

P2(a, b) == <<Num(a), Num(b)>>
FourPointSide == <<P2(0, 0), P2(1, 0), P2(1, 1), P2(2, 3)>>
Segment == <<P2(-1, 1), N3(1, 1, 2)>>
OnePointSide == <<P2(1, 1)>>

\* The six quad faces of the cube from (0,0,0) to (1,1,1).
CubeFaces ==
  <<<<Va(0, 0, 0), Va(0, 0, 1), Va(0, 1, 1), Va(0, 1, 0)>>,
    <<Va(1, 0, 0), Va(1, 1, 0), Va(1, 1, 1), Va(1, 0, 1)>>,
    <<Va(0, 0, 0), Va(1, 0, 0), Va(1, 0, 1), Va(0, 0, 1)>>,
    <<Va(0, 1, 0), Va(0, 1, 1), Va(1, 1, 1), Va(1, 1, 0)>>,
    <<Va(0, 0, 0), Va(0, 1, 0), Va(1, 1, 0), Va(1, 0, 0)>>,
    <<Va(0, 0, 1), Va(1, 0, 1), Va(1, 1, 1), Va(0, 1, 1)>>>>
CubeSolid == Solid(CubeFaces, ColUndefined, Translate)
PlainSolid == Solid(<<Tri>>, ColUndefined, Identity)
BlueSolid == Solid(<<Quad, TwoVertices>>,
                   ColArray(<<Num(0), Num(0), Num(ONE), Num(ONE)>>), Translate)
HexSolid == Solid(<<ColoredTri>>, ColString("#ff0000"), NoTransform)
EightBitSolid == Solid(<<MixedQuad, Tri>>, Red8bit, ShortMatrix)
BananaSolid == Solid(<<Tri, ColoredTri>>, ColString("banana"), Halving)
DegenerateSolid == Solid(<<Collinear>>, ColUndefined, NoTransform)
ThinSolid == Solid(<<TwoVertices>>, ColUndefined, Identity)
EmptySolid == Solid(<<>>, ColUndefined, NoTransform)
PlainShape == Shape(<<FourPointSide>>, ColUndefined, NoTransform)
GreyShape == Shape(<<Segment, OnePointSide, FourPointSide>>, Grey8bit, Translate)
PointShape == Shape(<<OnePointSide>>, ColUndefined, NoTransform)
EmptyShape == Shape(<<>>, ColUndefined, NoTransform)
\* Both properties: the polygons are used.
SolidWithSides == CsgObject(TRUE, <<Tri>>, TRUE, <<Segment>>, ShortArray, NoTransform)
\* An object with neither property, and the scalars.
BareObject == CsgObject(FALSE, <<>>, FALSE, <<>>, Red01, NoTransform)
Undefined == CsgScalar("undefined")
Zero == CsgScalar("zero")
Measurement == CsgScalar("number")

Leaves == {CubeSolid, PlainSolid, BlueSolid, HexSolid, EightBitSolid, BananaSolid, DegenerateSolid,
           ThinSolid, EmptySolid, PlainShape, GreyShape, PointShape, EmptyShape,
           SolidWithSides, BareObject, Undefined, Zero, Measurement}
\* What the lists of the model hold: units that convert, units that do not, and
\* inner lists.
ListItems == {PlainSolid, GreyShape, ThinSolid, BareObject,
              CsgList(<<BlueSolid, PlainShape>>), CsgList(<<>>)}
PlanResults == Leaves \cup {CsgList(items) : items \in SeqUpTo(ListItems, MaxList)}

EntrySamples ==
  {Entry(TRUE, PlainSolid, ColUndefined),
   Entry(TRUE, HexSolid, ColString("not-a-color")),
   Entry(TRUE, BlueSolid, ColString("#0F0")),
   Entry(TRUE, EightBitSolid, ColUndefined),
   Entry(TRUE, BananaSolid, ColOther),
   Entry(TRUE, GreyShape, ColString(" rgb(100%, 0, 255) ")),
   Entry(TRUE, BareObject, ColUndefined),
   Entry(TRUE, CsgList(<<PlainSolid>>), Red8bit),
   Entry(TRUE, Zero, Red01),
   Entry(FALSE, Undefined, Red01)}
Models == {Model(FALSE, <<>>)}
          \cup {Model(TRUE, entries) : entries \in SeqUpTo(EntrySamples, MaxList)}

OptionSamples ==
  {Options(FALSE, "", FALSE, "", FALSE),
   Options(TRUE, "glb", TRUE, "é\"x", TRUE),
   Options(TRUE, "gltf", TRUE, "é", TRUE),
   Options(TRUE, "gltf", FALSE, "", FALSE)}

\* ------------------------------------------------------------------- state
VARIABLES
  pc,          \* where the one conversion call is: idle, packing, packed, done, failed
  input,       \* the entry point called and its arguments
  geometries,  \* the Mesh Units collectGeometries returned
  index,       \* the forEach position of buildGltfCore
  st,          \* the packer's local state
  json,        \* the scene description buildGltfCore returns
  binary,      \* the packed buffer buildGltfCore returns
  result,      \* the ConvertJscadPlanToGltfResult returned
  error,       \* the message of the Error thrown
  colorValue,  \* the value a call of the colour resolver is given
  parsedColor  \* what that call returned
vars == <<pc, input, geometries, index, st, json, binary, result, error, colorValue,
          parsedColor>>
colorVars == <<colorValue, parsedColor>>

NoInput == [entry |-> "", csg |-> Undefined, model |-> Model(FALSE, <<>>),
            options |-> Options(FALSE, "", FALSE, "", FALSE)]

Init ==
  /\ pc = "idle"
  /\ input = NoInput
  /\ geometries = <<>>
  /\ index = 0
  /\ st = PackerInit
  /\ json = JNull
  /\ binary = <<>>
  /\ result = NoResult
  /\ error = ""
  /\ colorValue = ColUndefined
  /\ parsedColor = Absent

\* The call has its Mesh Units and enters buildGltfCore, or has thrown.
begin(collected) ==
  IF collected.err # ""
  THEN /\ pc' = "failed"
       /\ error' = collected.err
       /\ UNCHANGED <<geometries, index, st, json, binary, result>>
  ELSE /\ pc' = "packing"
       /\ geometries' = collected.geometries
       /\ index' = 0
       /\ st' = PackerInit
       /\ UNCHANGED <<json, binary, result, error>>

convertJscadPlanToGltf(csgResult, options) ==
  /\ pc = "idle"
  /\ input' = [entry |-> "plan", csg |-> csgResult, model |-> Model(FALSE, <<>>),
               options |-> options]
  /\ begin(planGeometries(csgResult, options))
  /\ UNCHANGED colorVars

convertJscadModelToGltf(model, options) ==
  /\ pc = "idle"
  /\ input' = [entry |-> "model", csg |-> Undefined, model |-> model, options |-> options]
  /\ begin(modelGeometries(model, options))
  /\ UNCHANGED colorVars

\* One call of the forEach callback of buildGltfCore.
forEachGeometry ==
  /\ pc = "packing"
  /\ index < Len(geometries)
  /\ st' = packGeometry(st, geometries[index + 1], index)
  /\ index' = index + 1
  /\ UNCHANGED <<pc, input, geometries, json, binary, result, error, colorVars>>

\* The rest of buildGltfCore: final padding, concatenation, scene description.
buildGltfCoreReturn ==
  /\ pc = "packing"
  /\ index = Len(geometries)
  /\ st' = packFinish(st)
  /\ binary' = BufferConcat(st'.bufferChunks, st'.bufferLength)
  /\ json' = sceneJson(st')
  /\ pc' = "packed"
  /\ UNCHANGED <<input, geometries, index, result, error, colorVars>>

\* The rest of buildConversionResult.
buildConversionResult ==
  /\ pc = "packed"
  /\ result' = serialize(json, binary, formatOf(input.options), input.options.prettyJson)
  /\ pc' = "done"
  /\ UNCHANGED <<input, geometries, index, st, json, binary, error, colorVars>>

Next ==
  \/ \E csgResult \in PlanResults, options \in OptionSamples :
       convertJscadPlanToGltf(csgResult, options)
  \/ \E model \in Models, options \in OptionSamples :
       convertJscadModelToGltf(model, options)
  \/ forEachGeometry
  \/ buildGltfCoreReturn
  \/ buildConversionResult

Spec == Init /\ [][Next]_vars

\* ------------------------------------------------------- the colour resolver
\* The resolver on its own: one call of parseColorValue on a string.
\* The longest remainder after "#" of the strings tried.
MaxHex == 7
\* A hexadecimal digit that is a decimal digit, one that is a letter, and a
\* letter that is no hexadecimal digit.
HexAlphabet == {"0", "f", "g"}
RECURSIVE StringsOver(_, _)
StringsOver(alphabet, n) ==
  IF n = 0 THEN {""}
  ELSE LET shorter == StringsOver(alphabet, n - 1)
       IN shorter \cup {s \o c : s \in {t \in shorter : Len(t) = n - 1}, c \in alphabet}
ColorStrings ==
  {"#" \o tail : tail \in StringsOver(HexAlphabet, MaxHex)}
  \cup {"#FF8000", " #0f0 ", "#ff0000gg", "#ff0000ff", "#12345678", "#abcdef", "# f0000",
        "#-f0000", "#0x0000", "ff0000", "", "red", "rgb(255, 0, 0)"}

ColorInit ==
  /\ pc = "idle"
  /\ input = NoInput
  /\ geometries = <<>>
  /\ index = 0
  /\ st = PackerInit
  /\ json = JNull
  /\ binary = <<>>
  /\ result = NoResult
  /\ error = ""
  /\ colorValue \in {ColString(str) : str \in ColorStrings}
  /\ parsedColor = Absent

\* One call of parseColorValue.
resolveColor ==
  /\ pc = "idle"
  /\ parsedColor' = parseColorValue(colorValue)
  /\ pc' = "resolved"
  /\ UNCHANGED <<input, geometries, index, st, json, binary, result, error, colorValue>>

ColorNext == resolveColor
ColorSpec == ColorInit /\ [][ColorNext]_vars

\* =================================================================== claims
\* ------------------------------------------------ the reader of a container
\* A conversion that has returned, and one that has returned a GLB.
Returned == pc = "done"
GlbReturned == pc = "done" /\ result.format = "glb"
glb == result.data.bytes
\* The 32-bit little-endian field at byte `offset` (from 0); -1 when the four
\* bytes are not there.
ReadUInt32LE(buf, offset) ==
  IF offset + 4 > Len(buf) \/ \E i \in 1..4 : ~IsU8(buf[offset + i]) THEN -1
  ELSE buf[offset + 1].u8 + 256 * buf[offset + 2].u8 + 65536 * buf[offset + 3].u8
       + 16777216 * buf[offset + 4].u8
\* The smallest multiple of 4 that is at least n.
PaddedTo4(n) == CHOOSE m \in n..(n + 3) : m % 4 = 0
\* The chunk lengths a reader finds in the two chunk headers.
jsonChunkLength == ReadUInt32LE(glb, 12)
binChunkLength == ReadUInt32LE(glb, 20 + jsonChunkLength)
\* The chunk bodies located by those headers.
jsonChunk == SubSeq(glb, 21, 20 + jsonChunkLength)
binChunk == SubSeq(glb, 29 + jsonChunkLength, 28 + jsonChunkLength + binChunkLength)
SetMax(S) == CHOOSE m \in S : \A x \in S : x <= m
SetMin(S) == CHOOSE m \in S : \A x \in S : m <= x
StripTrailingSpaces(bytes) ==
  LET kept == {i \in 1..Len(bytes) : bytes[i] # U8(SPACE)}
  IN SubSeq(bytes, 1, IF kept = {} THEN 0 ELSE SetMax(kept))
\* The character of an ASCII code; "?" stands for a byte that is no character of
\* the model's alphabet (a NUL, a byte of a float).
CodeChar(n) ==
  IF n = 10 THEN "\n"
  ELSE IF n \in 32..95 THEN CharAt(AsciiLow, n - 31)
  ELSE IF n \in 97..126 THEN CharAt(AsciiHigh, n - 96)
  ELSE "?"
ByteCode(b) == IF IsU8(b) THEN b.u8 ELSE -1
\* The text bytes lo..hi decode to: U+00E9 from its two bytes, ASCII otherwise.
RECURSIVE utf8Decode(_, _, _)
utf8Decode(bytes, lo, hi) ==
  IF lo > hi THEN ""
  ELSE IF lo = hi
  THEN LET b == ByteCode(bytes[lo])
       IN IF b = 195 /\ lo < Len(bytes) /\ ByteCode(bytes[lo + 1]) = 169 THEN "é"
          ELSE IF b = 169 /\ lo > 1 /\ ByteCode(bytes[lo - 1]) = 195 THEN ""
          ELSE CodeChar(b)
  ELSE LET mid == (lo + hi) \div 2
       IN utf8Decode(bytes, lo, mid) \o utf8Decode(bytes, mid + 1, hi)
jsonChunkText ==
  LET text == StripTrailingSpaces(jsonChunk) IN utf8Decode(text, 1, Len(text))

\* C1: the total length in the header of a returned GLB, the length of the
\* returned bytes and the reported byteLength are one number, 12 + 8 + the padded
\* JSON chunk length + 8 + the padded binary chunk length, and the two chunk
\* lengths are multiples of 4 (the JSON and binary lengths rounded up).
C1_GlbLength ==
  GlbReturned =>
    /\ jsonChunkLength = PaddedTo4(Len(BufferFromString(JSONstringify(json, 0))))
    /\ binChunkLength = PaddedTo4(Len(binary))
    /\ jsonChunkLength % 4 = 0
    /\ binChunkLength % 4 = 0
    /\ ReadUInt32LE(glb, 8) = Len(glb)
    /\ result.byteLength = Len(glb)
    /\ Len(glb) = 12 + 8 + jsonChunkLength + 8 + binChunkLength
\* A GLB was returned whose JSON text needed padding.
C1_Witness ==
  /\ GlbReturned
  /\ Len(BufferFromString(JSONstringify(json, 0))) % 4 # 0
  /\ ReadUInt32LE(glb, 8) > 0

\* C2: in a returned GLB the JSON chunk found through its chunk header, its
\* trailing spaces stripped and decoded as UTF-8, is the text of the scene
\* description that was written, and the binary chunk found through its header
\* is byte for byte the packed buffer, with no padding added to it.
C2_GlbRoundTrip ==
  GlbReturned =>
    /\ ReadUInt32LE(glb, 0) = GLB_MAGIC
    /\ ReadUInt32LE(glb, 16) = CHUNK_JSON
    /\ ReadUInt32LE(glb, 24 + jsonChunkLength) = CHUNK_BIN
    /\ jsonChunkText = JSONstringify(json, 0)
    /\ binChunk = binary
    /\ binChunkLength = Len(binary)
\* A GLB of two units or more was returned: the JSON chunk ends in padding
\* spaces and a mesh name holds a character that is escaped or takes two bytes.
C2_Witness ==
  /\ GlbReturned
  /\ Len(geometries) >= 2
  /\ Len(StripTrailingSpaces(jsonChunk)) < Len(jsonChunk)
  /\ input.options.hasMeshName
  /\ Len(binChunk) > 0

\* ------------------------------------------------------ the input of a call
Called == pc # "idle"
Converted == pc \in {"packing", "packed", "done"}
\* The geometry value the call converts: the plan's result, or the prepared
\* list of the rendered model.
InputTree ==
  IF input.entry = "plan" THEN input.csg
  ELSE CsgList(normalizeRenderedGeometries(input.model))
\* The geometry objects under a value, depth first, each with the colour hint
\* that came with it.
RECURSIVE ObjectsOf(_, _)
RECURSIVE ObjectsFrom(_, _, _)
ObjectsFrom(items, hint, i) ==
  IF i > Len(items) THEN <<>>
  ELSE ObjectsOf(items[i], hint) \o ObjectsFrom(items, hint, i + 1)
ObjectsOf(csg, hint) ==
  IF csg.kind = "list" THEN ObjectsFrom(csg.items, hint, 1)
  ELSE <<[object |-> csg, hint |-> hint]>>
RECURSIVE EntryObjectsFrom(_, _)
EntryObjectsFrom(entries, i) ==
  IF i > Len(entries) THEN <<>>
  ELSE (IF geomMissing(entries[i]) THEN <<>>
        ELSE ObjectsOf(entries[i].geom, entries[i].color))
       \o EntryObjectsFrom(entries, i + 1)
\* The geometry objects of the call as the caller gave them, in the order of
\* the Mesh Units made from them.
SourceObjects ==
  IF input.entry = "plan" THEN ObjectsOf(input.csg, ColUndefined)
  ELSE IF input.model.valid THEN EntryObjectsFrom(input.model.geometries, 1)
  ELSE <<>>
\* One geometry object on its own does not convert.
FailsToTriangulate(object) == collectGeometries(object, "").err # ""

\* C3: a plan result that is not a list and has neither a polygon list nor a
\* side list (a scalar such as a measurement number included; `nothing
\* returned`, the no-geometry case, left aside) makes the conversion fail with
\* the unsupported-geometry failure: no result, and not the no-geometry failure.
C3_UnsupportedGeometry ==
  (/\ Called
   /\ input.entry = "plan"
   /\ input.csg.kind # "list"
   /\ ~input.csg.hasPolygons
   /\ ~input.csg.hasSides
   /\ input.csg.scalar \notin {"undefined", "null"})
  => (pc = "failed" /\ error = ErrUnsupported /\ result = NoResult)

\* C4: when a geometry object anywhere in the (possibly nested) input does not
\* convert, the whole call fails: there are no Mesh Units, no scene, no buffer
\* and no result for the objects that would have converted.
C4_NoPartialOutput ==
  (Called /\ \E k \in 1..Len(ObjectsOf(InputTree, ColUndefined)) :
               FailsToTriangulate(ObjectsOf(InputTree, ColUndefined)[k].object))
  => /\ pc = "failed"
     /\ error # ""
     /\ geometries = <<>>
     /\ st = PackerInit
     /\ json = JNull
     /\ binary = <<>>
     /\ result = NoResult
\* A call on a list of two failed: its first object converts on its own and
\* its second does not.
C4_Witness ==
  /\ pc = "failed"
  /\ input.entry = "plan"
  /\ input.csg.kind = "list"
  /\ Len(input.csg.items) = 2
  /\ input.csg.items[1].kind = "object"
  /\ ~FailsToTriangulate(input.csg.items[1])
  /\ input.csg.items[2].kind = "object"
  /\ FailsToTriangulate(input.csg.items[2])

\* The vertices of the fan triangles of a list of polygons, in emitted order:
\* (0, i, i+1) for every polygon of three vertices or more.
RECURSIVE Corners(_, _)
Corners(polygons, from) ==
  IF from > Len(polygons) THEN <<>>
  ELSE LET polygon == polygons[from]
           n == Len(polygon)
           fan == IF n < 3 THEN <<>>
                  ELSE [q \in 1..(3 * (n - 2)) |->
                          IF (q - 1) % 3 = 0 THEN polygon[1]
                          ELSE polygon[((q - 1) \div 3) + 1 + ((q - 1) % 3)]]
       IN fan \o Corners(polygons, from + 1)
\* The colour of emitted vertex j of a unit.
ColorAt(unit, j) == <<unit.colors[3 * j - 2], unit.colors[3 * j - 1], unit.colors[3 * j]>>
VertexHasColor(vertex) == vertex.form # "null" /\ vertex.color.kind # "undefined"
\* What the resolver makes of the colour of a vertex, when it resolves.
ResolvedVertexColor(vertex) ==
  IF VertexHasColor(vertex) THEN parseColorValue(vertex.color) ELSE Absent

\* C5: every triangle vertex emitted from a polygon has the colour the resolver
\* gives for the vertex's own colour when that resolves, and the default colour
\* of its shape otherwise; every emitted channel lies in [0, 1].
C5_VertexColor ==
  Converted =>
    \A k \in 1..Len(geometries) :
      LET object == SourceObjects[k].object
          prepared == ObjectsOf(InputTree, ColUndefined)[k].object
          corners == Corners(object.polygons, 1)
      IN object.hasPolygons =>
           /\ Len(geometries[k].colors) = 3 * Len(corners)
           /\ \A j \in 1..Len(corners) :
                /\ ColorAt(geometries[k], j) =
                     IF ResolvedVertexColor(corners[j]).ok
                     THEN ResolvedVertexColor(corners[j]).rgb
                     ELSE shapeDefaultColor(prepared)
                /\ \A a \in 1..3 : ColorAt(geometries[k], j)[a] \in 0..ONE

\* The default colour by the stated order: the hint, the object's own colour,
\* white.
ResolvedDefaultColor(hint, own) ==
  IF parseColorValue(hint).ok THEN parseColorValue(hint).rgb
  ELSE IF parseColorValue(own).ok THEN parseColorValue(own).rgb
  ELSE WHITE

\* C6: the default colour of a geometry object (the colour of every point of a
\* 2D shape and of every polygon vertex that has no colour of its own) is the
\* resolved colour hint when the hint resolves, otherwise the resolved colour of
\* the object's own colour field when that resolves, otherwise white.
C6_ShapeDefaultColor ==
  Converted =>
    \A k \in 1..Len(geometries) :
      LET source == SourceObjects[k]
          default == ResolvedDefaultColor(source.hint, source.object.color)
          corners == Corners(source.object.polygons, 1)
      IN \A j \in 1..(Len(geometries[k].colors) \div 3) :
           (source.object.hasPolygons => ~VertexHasColor(corners[j]))
           => ColorAt(geometries[k], j) = default

\* The names by position: the base name for an object, and for the child at
\* zero-based position i of a list the list's name, "_" and i.
RECURSIVE ExpectedNames(_, _)
RECURSIVE ExpectedNamesFrom(_, _, _)
ExpectedNamesFrom(items, name, i) ==
  IF i > Len(items) THEN <<>>
  ELSE ExpectedNames(items[i], name \o "_" \o ToString(i - 1))
       \o ExpectedNamesFrom(items, name, i + 1)
ExpectedNames(csg, name) ==
  IF csg.kind = "list" THEN ExpectedNamesFrom(csg.items, name, 1) ELSE <<name>>
UnitNames == [k \in 1..Len(geometries) |-> geometries[k].name]

\* C7: one object that is not a list gives one mesh named the base name; a list
\* gives one mesh per object, the i-th (from zero) named base_i, a nested list
\* adding a suffix per level; the names of one call are pairwise distinct, and
\* they are the names of the meshes and nodes written.
C7_MeshNames ==
  Converted =>
    /\ UnitNames = ExpectedNames(InputTree, meshNameOf(input.options))
    /\ (input.entry = "plan" /\ input.csg.kind # "list")
         => UnitNames = <<meshNameOf(input.options)>>
    /\ \A a, b \in 1..Len(UnitNames) : a # b => UnitNames[a] # UnitNames[b]
    /\ pc \in {"packed", "done"} =>
         /\ [k \in 1..Len(st.meshes) |-> st.meshes[k].name] = UnitNames
         /\ [k \in 1..Len(st.nodes) |-> st.nodes[k].name] = UnitNames
         /\ [k \in 1..Len(JGet(json, "meshes").items) |->
               JGet(JGet(json, "meshes").items[k], "name").s] = UnitNames
\* A call on a list with an inner list returned: a mesh is named base_1_1.
C7_Witness ==
  /\ Returned
  /\ Len(geometries) >= 3
  /\ \E k \in 1..Len(geometries) :
       geometries[k].name = meshNameOf(input.options) \o "_1_1"

\* C8: every buffer view starts at a byte offset that is a multiple of 4, and
\* when packing ends the buffer's total length is a multiple of 4 and the
\* declared byteLength of the buffer is the length of the packed binary.
C8_Alignment ==
  /\ \A i \in 1..Len(st.bufferViews) : st.bufferViews[i].byteOffset % 4 = 0
  /\ pc \in {"packed", "done"} =>
       /\ st.bufferLength % 4 = 0
       /\ Len(binary) % 4 = 0
       /\ Len(binary) = st.bufferLength
       /\ JGet(JGet(json, "buffers").items[1], "byteLength").n = Len(binary)
       /\ \A i \in 1..Len(JGet(json, "bufferViews").items) :
            JGet(JGet(json, "bufferViews").items[i], "byteOffset").n % 4 = 0
\* Packing ended with five buffer views or more, the last one past the start.
C8_Witness ==
  /\ pc = "packed"
  /\ Len(st.bufferViews) >= 5
  /\ st.bufferViews[Len(st.bufferViews)].byteOffset > 0
  /\ Len(binary) > 0

\* The accessor of attribute `key` of packed mesh k, or of no accessor (0).
AccessorOf(k, key) ==
  LET attributes == st.meshes[k].primitives[1].attributes
      found == {i \in 1..Len(attributes) : attributes[i].key = key}
  IN IF found = {} THEN 0 ELSE attributes[SetMin(found)].accessor + 1
\* The values of axis a of the positions of unit k.
AxisValues(k, a) ==
  {geometries[k].positions[3 * (j - 1) + a] : j \in 1..(Len(geometries[k].positions) \div 3)}

\* C9: the position accessor of every packed unit declares, per axis, the least
\* and the greatest value of that unit's own positions (every triple lies within
\* them and each bound is attained); normal and colour accessors declare none.
C9_Bounds ==
  \A k \in 1..Len(st.meshes) :
    LET position == AccessorOf(k, "POSITION")
    IN /\ position # 0
       /\ st.accessors[position].hasBounds
       /\ \A a \in 1..3 :
            /\ st.accessors[position].min[a] = Fin(SetMin(AxisValues(k, a)))
            /\ st.accessors[position].max[a] = Fin(SetMax(AxisValues(k, a)))
            /\ \A x \in AxisValues(k, a) :
                 /\ ~LessThan(x, st.accessors[position].min[a])
                 /\ ~GreaterThan(x, st.accessors[position].max[a])
       /\ \A key \in {"NORMAL", "COLOR_0"} :
            AccessorOf(k, key) # 0 => ~st.accessors[AccessorOf(k, key)].hasBounds
       /\ pc \in {"packed", "done"} =>
            \A i \in 1..Len(st.accessors) :
              LET keys == Range(JGet(json, "accessors").items[i].keys)
              IN IF i = position
                 THEN /\ JGet(JGet(json, "accessors").items[i], "min").items =
                           [a \in 1..3 |-> JInt(SetMin(AxisValues(k, a)))]
                      /\ JGet(JGet(json, "accessors").items[i], "max").items =
                           [a \in 1..3 |-> JInt(SetMax(AxisValues(k, a)))]
                 ELSE i \in {AccessorOf(k, "NORMAL"), AccessorOf(k, "COLOR_0")}
                      => ("min" \notin keys /\ "max" \notin keys)
\* Two units are packed whose bounds differ, the second entirely above zero on an
\* axis.
C9_Witness ==
  /\ Len(st.meshes) >= 2
  /\ st.accessors[AccessorOf(1, "POSITION")].min # st.accessors[AccessorOf(2, "POSITION")].min
  /\ \E k \in 1..Len(st.meshes) : \E a \in 1..3 : \A x \in AxisValues(k, a) : x > 0
  /\ \E k \in 1..Len(st.meshes) : AccessorOf(k, "NORMAL") # 0

\* C10: a TRIANGLES unit has a position stream of a multiple of 9 numbers and a
\* LINES unit one of a multiple of 6; a normal stream and a colour stream, when
\* present, are as long as the position stream.
C10_StreamShape ==
  \A k \in 1..Len(geometries) :
    LET unit == geometries[k]
    IN /\ unit.mode \in {GLTF_MODE_TRIANGLES, GLTF_MODE_LINES}
       /\ unit.mode = GLTF_MODE_TRIANGLES => Len(unit.positions) % 9 = 0
       /\ unit.mode = GLTF_MODE_LINES => Len(unit.positions) % 6 = 0
       /\ unit.hasNormals => Len(unit.normals) = Len(unit.positions)
       /\ unit.hasColors => Len(unit.colors) = Len(unit.positions)
\* A call made a TRIANGLES unit of two triangles or more and a LINES unit of two
\* segments or more, both with colours.
C10_Witness ==
  /\ Converted
  /\ \E k \in 1..Len(geometries) :
       /\ geometries[k].mode = GLTF_MODE_TRIANGLES
       /\ Len(geometries[k].positions) >= 18
       /\ geometries[k].hasNormals /\ geometries[k].hasColors
  /\ \E k \in 1..Len(geometries) :
       /\ geometries[k].mode = GLTF_MODE_LINES
       /\ Len(geometries[k].positions) >= 12
       /\ geometries[k].hasColors

\* The attribute names of primitive p of mesh k of the scene description.
JsonMeshes == JGet(json, "meshes").items
JsonPrimitives(k) == JGet(JsonMeshes[k], "primitives").items
JsonAttributeKeys(k, p) == Range(JGet(JsonPrimitives(k)[p], "attributes").keys)
JsonMode(k, p) == JGet(JsonPrimitives(k)[p], "mode").n

\* C11: every mesh written has exactly one primitive; the primitive has a
\* POSITION and a COLOR_0 attribute, and a NORMAL attribute exactly when its mode
\* is the triangle list (4), never when it is the line list (1).
C11_PrimitiveAttributes ==
  /\ \A k \in 1..Len(st.meshes) :
       LET keys == {st.meshes[k].primitives[i].attributes[j].key :
                      i \in {1}, j \in 1..Len(st.meshes[k].primitives[1].attributes)}
           mode == st.meshes[k].primitives[1].mode
       IN /\ Len(st.meshes[k].primitives) = 1
          /\ "POSITION" \in keys
          /\ "COLOR_0" \in keys
          /\ mode \in {GLTF_MODE_TRIANGLES, GLTF_MODE_LINES}
          /\ ("NORMAL" \in keys) <=> (mode = GLTF_MODE_TRIANGLES)
  /\ pc \in {"packed", "done"} =>
       /\ Len(JsonMeshes) = Len(geometries)
       /\ \A k \in 1..Len(JsonMeshes) :
            /\ Len(JsonPrimitives(k)) = 1
            /\ {"POSITION", "COLOR_0"} \subseteq JsonAttributeKeys(k, 1)
            /\ JsonAttributeKeys(k, 1) \subseteq {"POSITION", "NORMAL", "COLOR_0"}
            /\ ("NORMAL" \in JsonAttributeKeys(k, 1)) <=> (JsonMode(k, 1) = GLTF_MODE_TRIANGLES)
            /\ JsonMode(k, 1) = GLTF_MODE_LINES => "NORMAL" \notin JsonAttributeKeys(k, 1)
\* A conversion returned a scene with a triangle-list mesh and a line-list mesh.
C11_Witness ==
  /\ Returned
  /\ \E k \in 1..Len(JsonMeshes) : JsonMode(k, 1) = GLTF_MODE_TRIANGLES
  /\ \E k \in 1..Len(JsonMeshes) :
       JsonMode(k, 1) = GLTF_MODE_LINES /\ "COLOR_0" \in JsonAttributeKeys(k, 1)

\* The format the caller asked for: glb when the option is absent.
RequestedFormat == IF input.options.hasFormat THEN input.options.format ELSE "glb"

\* C12: the format of a result is the requested format (glb by default); the
\* MIME type is model/gltf-binary exactly for glb and model/gltf+json exactly for
\* gltf; data is a binary buffer for glb and a string for gltf; the glb result
\* is the same whatever prettyJson is.
C12_ResultShape ==
  Returned =>
    /\ result.format = RequestedFormat
    /\ result.format \in {"glb", "gltf"}
    /\ (result.mimeType = "model/gltf-binary") <=> (result.format = "glb")
    /\ (result.mimeType = "model/gltf+json") <=> (result.format = "gltf")
    /\ result.format = "glb" => (~result.data.isString /\ Len(result.data.bytes) > 0)
    /\ result.format = "gltf" => (result.data.isString /\ Len(result.data.text) > 0)
    /\ result.format = "glb" =>
         \A prettyJson \in BOOLEAN : serialize(json, binary, "glb", prettyJson) = result
\* A glb was returned to a caller that gave no format and one that asked for
\* pretty JSON.
C12_Witness ==
  /\ Returned
  /\ result.format = "glb"
  /\ result.mimeType = "model/gltf-binary"
  /\ (~input.options.hasFormat \/ input.options.prettyJson)
  /\ Len(geometries) = 1

\* The position the code gives vertex `vertex` of object `csg`.
TransformedPosition(csg, vertex) == applyTransform(extractVertexPosition(vertex), csg.transforms)
\* Three positions span no area.
ZeroArea(a, b, c) == cross(subtract(b, a), subtract(c, a)) = <<0, 0, 0>>
\* A polygon of three vertices or more all of whose fan triangles have no area.
Degenerate(csg, polygon) ==
  /\ Len(polygon) >= 3
  /\ \A i \in 2..(Len(polygon) - 1) :
       ZeroArea(TransformedPosition(csg, polygon[1]), TransformedPosition(csg, polygon[i]),
                TransformedPosition(csg, polygon[i + 1]))
\* A polygon-bearing object with polygons.
PolygonBearing(csg) == csg.kind = "object" /\ csg.hasPolygons /\ Len(csg.polygons) > 0
AllDegenerateOrShort(csg) ==
  /\ PolygonBearing(csg)
  /\ \A i \in 1..Len(csg.polygons) :
       Len(csg.polygons[i]) < 3 \/ Degenerate(csg, csg.polygons[i])
AllShort(csg) ==
  /\ PolygonBearing(csg)
  /\ \A i \in 1..Len(csg.polygons) : Len(csg.polygons[i]) < 3
\* Position j (from 1) of a unit.
PositionAt(unit, j) ==
  <<unit.positions[3 * j - 2], unit.positions[3 * j - 1], unit.positions[3 * j]>>
NormalAt(unit, j) == <<unit.normals[3 * j - 2], unit.normals[3 * j - 1], unit.normals[3 * j]>>
PreparedObjects == ObjectsOf(InputTree, ColUndefined)

\* C13 as stated: a polygon-bearing object in which every polygon is degenerate
\* (zero area) or has fewer than 3 vertices fails with the empty-triangulation
\* failure and gives no Mesh Unit.
C13_DegenerateFails ==
  /\ (Called /\ input.entry = "plan" /\ AllDegenerateOrShort(input.csg))
       => (pc = "failed" /\ error = ErrNoTriangles /\ geometries = <<>>)
  /\ (Called /\ \E k \in 1..Len(PreparedObjects) :
                  AllDegenerateOrShort(PreparedObjects[k].object))
       => (pc = "failed" /\ geometries = <<>>)

\* C13 amended: a polygon-bearing object in which every polygon has fewer than
\* 3 vertices fails with the empty-triangulation failure and gives no Mesh Unit;
\* a polygon of 3 vertices or more is emitted even when it is degenerate, its
\* zero-area triangles with the normal [0, 0, 1].
C13_EmptyTriangulation ==
  /\ (Called /\ input.entry = "plan" /\ AllShort(input.csg))
       => (pc = "failed" /\ error = ErrNoTriangles /\ geometries = <<>> /\ result = NoResult)
  /\ (Called /\ \E k \in 1..Len(PreparedObjects) : AllShort(PreparedObjects[k].object))
       => (pc = "failed" /\ geometries = <<>> /\ result = NoResult)
  /\ (Called /\ input.entry = "plan" /\ PolygonBearing(input.csg) /\ ~AllShort(input.csg))
       => (/\ Converted
           /\ Len(geometries) = 1
           /\ Len(geometries[1].positions) > 0)
  /\ \A k \in 1..Len(geometries) :
       geometries[k].mode = GLTF_MODE_TRIANGLES =>
         \A t \in 1..(Len(geometries[k].positions) \div 9) :
           ZeroArea(PositionAt(geometries[k], 3 * t - 2), PositionAt(geometries[k], 3 * t - 1),
                    PositionAt(geometries[k], 3 * t))
           => \A c \in 0..2 : NormalAt(geometries[k], 3 * t - c) = <<0, 0, ONE>>
\* A call on an object whose polygons all have fewer than 3 vertices has failed.
C13_Witness ==
  /\ pc = "failed"
  /\ error = ErrNoTriangles
  /\ input.entry = "plan"
  /\ AllShort(input.csg)

\* The number of fan triangles of a list of polygons: the sum of max(N - 2, 0).
RECURSIVE TriangleCount(_, _)
TriangleCount(polygons, from) ==
  IF from > Len(polygons) THEN 0
  ELSE (IF Len(polygons[from]) >= 3 THEN Len(polygons[from]) - 2 ELSE 0)
       + TriangleCount(polygons, from + 1)

\* C14: a polygon of N >= 3 vertices gives the N - 2 triangles (0, i, i+1),
\* i = 1..N-2, in that order, each vertex at the transformed position of the
\* polygon's vertex; a polygon of fewer than 3 vertices gives nothing; a unit has
\* 3 * (sum of max(N - 2, 0)) vertices.
C14_FanTriangulation ==
  Converted =>
    \A k \in 1..Len(geometries) :
      LET object == PreparedObjects[k].object
          corners == Corners(object.polygons, 1)
      IN object.hasPolygons =>
           /\ geometries[k].mode = GLTF_MODE_TRIANGLES
           /\ Len(geometries[k].positions) = 9 * TriangleCount(object.polygons, 1)
           /\ Len(corners) = 3 * TriangleCount(object.polygons, 1)
           /\ \A j \in 1..Len(corners) :
                PositionAt(geometries[k], j) = TransformedPosition(object, corners[j])
\* A solid of 6 quad faces was converted to 12 triangles, 36 vertices.
C14_Witness ==
  /\ Converted
  /\ Len(PreparedObjects) = 1
  /\ Len(PreparedObjects[1].object.polygons) = 6
  /\ \A i \in 1..6 : Len(PreparedObjects[1].object.polygons[i]) = 4
  /\ Len(geometries[1].positions) = 3 * 36

\* The end points of the segments of a list of sides, in order: the first and
\* the last point of every side of 2 points or more.
RECURSIVE EndPoints(_, _)
EndPoints(sides, from) ==
  IF from > Len(sides) THEN <<>>
  ELSE (IF Len(sides[from]) >= 2 THEN <<sides[from][1], sides[from][Len(sides[from])]>>
        ELSE <<>>)
       \o EndPoints(sides, from + 1)
\* The position of a point of a side: a missing or non-numeric entry is 0.
TransformedPoint(csg, point) ==
  applyTransform(<<IF Len(point) >= 1 /\ ~point[1].nan THEN point[1].v ELSE 0,
                   IF Len(point) >= 2 /\ ~point[2].nan THEN point[2].v ELSE 0,
                   IF Len(point) >= 3 /\ ~point[3].nan THEN point[3].v ELSE 0>>,
                 csg.transforms)
SideBearing(csg) == csg.kind = "object" /\ ~csg.hasPolygons /\ csg.hasSides

Trimmed == trim(colorValue.str)
\* What follows the "#" of a hex colour string.
HexRemainder == SubSeq(Trimmed, 2, Len(Trimmed))
\* The characters of the remainder that make up R, G and B: all 3 of the short
\* form, the first 6 of the long forms.
RgbCharacters ==
  IF Len(HexRemainder) = 3 THEN {CharAt(HexRemainder, i) : i \in 1..3}
  ELSE {CharAt(HexRemainder, i) : i \in 1..Min2(6, Len(HexRemainder))}
IsHex(c) == c \in {CharAt("0123456789abcdefABCDEF", i) : i \in 1..22}

\* C16: for a string that starts with "#" the resolver yields a colour only
\* when the remainder has length 3, 6 or 8 and every character of it that
\* contributes to R, G or B is a hexadecimal digit; otherwise it yields absent.
C16_HexRejectsMalformed ==
  (/\ pc = "resolved"
   /\ colorValue.kind = "string"
   /\ Len(Trimmed) >= 1
   /\ CharAt(Trimmed, 1) = "#")
  => (parsedColor.ok =>
        /\ Len(HexRemainder) \in {3, 6, 8}
        /\ \A c \in RgbCharacters : IsHex(c))

JsonNodes == JGet(json, "nodes").items
JsonScenes == JGet(json, "scenes").items

\* C17: after n Mesh Units are packed the scene description has n meshes and n
\* nodes in the order of the units; node i has the name of mesh i and refers to
\* mesh i; there is one scene, it is the default scene (scene = 0), and its
\* nodes are 0..n-1 in that order.
C17_SceneGraph ==
  /\ pc = "packing" =>
       /\ Len(st.meshes) = index
       /\ Len(st.nodes) = index
       /\ \A i \in 1..index :
            /\ st.meshes[i].name = geometries[i].name
            /\ st.nodes[i].name = st.meshes[i].name
            /\ st.nodes[i].mesh = i - 1
  /\ pc \in {"packed", "done"} =>
       /\ Len(JsonMeshes) = Len(geometries)
       /\ Len(JsonNodes) = Len(geometries)
       /\ \A i \in 1..Len(geometries) :
            /\ JGet(JsonMeshes[i], "name") = JStr(geometries[i].name)
            /\ JGet(JsonNodes[i], "name") = JGet(JsonMeshes[i], "name")
            /\ JGet(JsonNodes[i], "mesh") = JInt(i - 1)
       /\ Len(JsonScenes) = 1
       /\ JGet(json, "scene") = JInt(0)
       /\ JGet(JsonScenes[1], "nodes").items = [i \in 1..Len(geometries) |-> JInt(i - 1)]
\* Three units or more were packed, of different names.
C17_Witness ==
  /\ pc = "packed"
  /\ Len(geometries) >= 3
  /\ Len(JsonNodes) >= 3
  /\ JGet(JsonNodes[1], "name") # JGet(JsonNodes[3], "name")

JsonAccessors == JGet(json, "accessors").items

\* C18: every Mesh Unit that reaches the packer, from either entry point, has a
\* vertex (3 or more in a triangle list, 2 or more in a line list); so no
\* position accessor has count 0 and no min or max keeps its +Infinity or
\* -Infinity seed: min <= max on every axis.
C18_AtLeastOneVertex ==
  /\ \A k \in 1..Len(geometries) :
       /\ Len(geometries[k].positions) >= 3
       /\ geometries[k].mode = GLTF_MODE_TRIANGLES => Len(geometries[k].positions) >= 9
       /\ geometries[k].mode = GLTF_MODE_LINES => Len(geometries[k].positions) >= 6
  /\ \A i \in 1..Len(st.accessors) :
       /\ st.accessors[i].count >= 1
       /\ st.accessors[i].hasBounds =>
            \A a \in 1..3 :
              /\ st.accessors[i].min[a].inf = 0
              /\ st.accessors[i].max[a].inf = 0
              /\ st.accessors[i].min[a].v <= st.accessors[i].max[a].v
  /\ pc \in {"packed", "done"} =>
       \A i \in 1..Len(JsonAccessors) :
         /\ JGet(JsonAccessors[i], "count").n >= 1
         /\ "min" \in Range(JsonAccessors[i].keys) =>
              \A a \in 1..3 :
                /\ JGet(JsonAccessors[i], "min").items[a].t = "number"
                /\ JGet(JsonAccessors[i], "max").items[a].t = "number"
                /\ JGet(JsonAccessors[i], "min").items[a].n
                     <= JGet(JsonAccessors[i], "max").items[a].n
\* A rendered model was packed: a triangle of 3 vertices and a line list.
C18_Witness ==
  /\ pc = "packed"
  /\ input.entry = "model"
  /\ \E k \in 1..Len(geometries) :
       geometries[k].mode = GLTF_MODE_TRIANGLES /\ Len(geometries[k].positions) = 9
  /\ \E k \in 1..Len(geometries) : geometries[k].mode = GLTF_MODE_LINES
  /\ \E i \in 1..Len(st.accessors) :
       st.accessors[i].hasBounds /\ st.accessors[i].min[3] = st.accessors[i].max[3]

RECURSIVE SumByteLengths(_, _)
SumByteLengths(views, from) ==
  IF from > Len(views) THEN 0 ELSE views[from].byteLength + SumByteLengths(views, from + 1)
\* The bytes a buffer view covers.
ByteRange(view) == view.byteOffset..(view.byteOffset + view.byteLength - 1)
JsonBufferViews == JGet(json, "bufferViews").items

\* C19: the buffer views tile the packed buffer: the first starts at 0, every
\* later one starts where the one before it ends (no padding byte is inserted),
\* their byte ranges are pairwise disjoint, the declared length of the buffer is
\* the sum of their lengths, and accessor k refers to buffer view k, whose length
\* is 12 bytes for each of the accessor's elements.
C19_Tiling ==
  /\ Len(st.bufferViews) > 0 => st.bufferViews[1].byteOffset = 0
  /\ \A i \in 2..Len(st.bufferViews) :
       st.bufferViews[i].byteOffset =
         st.bufferViews[i - 1].byteOffset + st.bufferViews[i - 1].byteLength
  /\ \A i, j \in 1..Len(st.bufferViews) :
       i # j => ByteRange(st.bufferViews[i]) \cap ByteRange(st.bufferViews[j]) = {}
  /\ Len(st.bufferChunks) = Len(st.bufferViews)
  /\ st.bufferLength = SumByteLengths(st.bufferViews, 1)
  /\ Len(st.accessors) = Len(st.bufferViews)
  /\ \A k \in 1..Len(st.accessors) :
       /\ st.accessors[k].bufferView = k - 1
       /\ st.accessors[k].count * 12 = st.bufferViews[k].byteLength
  /\ pc \in {"packed", "done"} =>
       /\ Len(binary) = SumByteLengths(st.bufferViews, 1)
       /\ JGet(JGet(json, "buffers").items[1], "byteLength").n
            = SumByteLengths(st.bufferViews, 1)
       /\ Len(JsonBufferViews) = Len(JsonAccessors)
       /\ \A k \in 1..Len(JsonAccessors) :
            /\ JGet(JsonAccessors[k], "bufferView").n = k - 1
            /\ JGet(JsonAccessors[k], "count").n * 12
                 = JGet(JsonBufferViews[k], "byteLength").n
            /\ JGet(JsonBufferViews[k], "byteOffset").n =
                 IF k = 1 THEN 0
                 ELSE JGet(JsonBufferViews[k - 1], "byteOffset").n
                      + JGet(JsonBufferViews[k - 1], "byteLength").n
\* A conversion returned a buffer of six views or more, of different lengths.
C19_Witness ==
  /\ Returned
  /\ Len(st.bufferViews) >= 6
  /\ \E i, j \in 1..Len(st.bufferViews) :
       st.bufferViews[i].byteLength # st.bufferViews[j].byteLength
  /\ binary # <<>>

=============================================================================
